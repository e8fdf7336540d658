--------------------------- MODULE ArmAssignment ----------------------------
(* Between-subjects arms.  The create of a session takes a participant      *)
(* number and an arm in one transaction, whose upsert of the counter row    *)
(* makes the creates of a questionnaire wait for each other.  The device    *)
(* shows the blocks of the arm it was given, and of one it draws itself     *)
(* whenever the runtime starts without a fresh create answer.  Participants *)
(* are anonymous: the group counts are not theirs to read.                  *)
EXTENDS Naturals, FiniteSets, FiniteSetsExt

CONSTANTS
    Participant,
    ArmCount,     \* the design's conditions are 1 .. ArmCount
    Strategy,     \* assignmentStrategy
    SeededArm,    \* what the device's generator draws for participant 0
    Nobody,
    MaxSessions,  \* bound: sessions ever made
    MaxSetbacks   \* bound: creates rolled back and create answers lost

Arm == 1 .. ArmCount
SessionNo == 1 .. MaxSessions

ASSUME ArmAssumption ==
    /\ ArmCount \in Nat \ {0} /\ SeededArm \in Arm /\ Nobody \notin Participant
    /\ Strategy \in {"sequential", "balanced", "random"}
    /\ MaxSessions \in Nat /\ MaxSetbacks \in Nat

VARIABLES
    nextNumber,    \* participant_counters.next_number, committed
    armCount,      \* arm_counts.assigned_count, committed
    counterHolder, \* whose create holds the counter row
    creating,      \* a participant's create: [step, number, arm]
    armPage,       \* the participant's page
    armSession,    \* the session the page runs, 0 when none
    sessionsMade,
    created,       \* rows of create_session: [session, number, arm]
    offlineOnly,   \* sessions made on the device, not on the server yet
    materialised,  \* rows made by a sync of such a session
    resumable,     \* sessions with a stored answer
    shownArms,     \* history: the arms whose blocks a session showed
    setbacks

counterVars == <<nextNumber, armCount, counterHolder>>
armPageVars == <<armPage, armSession, resumable, shownArms>>
armRowVars == <<sessionsMade, created, offlineOnly, materialised>>
armVars == <<counterVars, creating, armPageVars, armRowVars, setbacks>>

NoCreate == [step |-> "none", number |-> 0, arm |-> 0]

ArmsTypeOK ==
    /\ nextNumber \in Nat /\ armCount \in [Arm -> Nat]
    /\ counterHolder \in Participant \cup {Nobody}
    /\ creating \in [Participant -> [step : {"none", "numbered", "claimed"}, number : Nat,
                                     arm : Arm \cup {0}]]
    /\ armPage \in [Participant -> {"start", "waiting", "running"}]
    /\ armSession \in [Participant -> SessionNo \cup {0}]
    /\ sessionsMade \in 0 .. MaxSessions
    /\ created \subseteq [session : SessionNo, number : Nat, arm : Arm]
    /\ offlineOnly \subseteq SessionNo /\ materialised \subseteq SessionNo
    /\ resumable \subseteq SessionNo /\ shownArms \in [SessionNo -> SUBSET Arm]
    /\ setbacks \in 0 .. MaxSetbacks

ArmsInit ==
    /\ nextNumber = 0 /\ armCount = [a \in Arm |-> 0] /\ counterHolder = Nobody
    /\ creating = [p \in Participant |-> NoCreate]
    /\ armPage = [p \in Participant |-> "start"]
    /\ armSession = [p \in Participant |-> 0]
    /\ sessionsMade = 0 /\ created = {} /\ offlineOnly = {} /\ materialised = {}
    /\ resumable = {} /\ shownArms = [s \in SessionNo |-> {}] /\ setbacks = 0

(* An operator named Faulty... is a plausible bug in the definition that    *)
(* follows.  Nothing uses it: it says which slip the properties notice.     *)
FaultyLocalArm == IF Strategy = "random" THEN SeededArm ELSE 0

(* ConditionAssigner.assign(0, undefined): without counts "balanced" falls  *)
(* back to "sequential", and number 0 is the first condition.               *)
LocalArm == IF Strategy = "random" THEN SeededArm ELSE 1

FaultyClaimedArm ==
    IF Strategy = "sequential"
    THEN (SumFunction(armCount) % ArmCount) + 1
    ELSE Min({a \in Arm : \A b \in Arm : armCount[a] >= armCount[b]})

(* claim_experiment_arm: the round-robin arm, or the first of the arms with *)
(* the fewest sessions ("random" is not one of its strategies).             *)
ClaimedArm ==
    IF Strategy = "sequential"
    THEN (SumFunction(armCount) % ArmCount) + 1
    ELSE Min({a \in Arm : \A b \in Arm : armCount[a] <= armCount[b]})

RequestCreate(p) ==
    /\ armPage[p] = "start" /\ armPage' = [armPage EXCEPT ![p] = "waiting"]
    /\ UNCHANGED <<counterVars, creating, armSession, resumable, shownArms,
                   armRowVars, setbacks>>

FaultyAllocateNumber(p) ==
    /\ armPage[p] = "waiting" /\ creating[p].step = "none"
    /\ counterHolder' = p
    /\ creating' = [creating EXCEPT ![p] = [@ EXCEPT !.step = "numbered", !.number = nextNumber]]
    /\ UNCHANGED <<nextNumber, armCount, armPageVars, armRowVars, setbacks>>

(* allocate_participant_number waits for the row another create holds.      *)
AllocateNumber(p) ==
    /\ armPage[p] = "waiting" /\ creating[p].step = "none"
    /\ counterHolder = Nobody /\ counterHolder' = p
    /\ creating' = [creating EXCEPT ![p] = [@ EXCEPT !.step = "numbered", !.number = nextNumber]]
    /\ UNCHANGED <<nextNumber, armCount, armPageVars, armRowVars, setbacks>>

ClaimArm(p) ==
    /\ creating[p].step = "numbered"
    /\ creating' = [creating EXCEPT ![p] = [@ EXCEPT !.step = "claimed", !.arm = ClaimedArm]]
    /\ UNCHANGED <<counterVars, armPageVars, armRowVars, setbacks>>

(* The session row commits with the number and the arm.                     *)
CommitCreate(p) ==
    /\ creating[p].step = "claimed" /\ sessionsMade < MaxSessions
    /\ sessionsMade' = sessionsMade + 1
    /\ LET c == creating[p] IN
        /\ nextNumber' = c.number + 1
        /\ armCount' = [armCount EXCEPT ![c.arm] = @ + 1]
        /\ created' = created \cup
                {[session |-> sessionsMade', number |-> c.number, arm |-> c.arm]}
        /\ \/ /\ armPage' = [armPage EXCEPT ![p] = "running"]
              /\ armSession' = [armSession EXCEPT ![p] = sessionsMade']
              /\ shownArms' = [shownArms EXCEPT ![sessionsMade'] = {c.arm}]
              /\ UNCHANGED setbacks
           \/ (* the answer is lost: the participant may start again *)
              /\ setbacks < MaxSetbacks /\ setbacks' = setbacks + 1
              /\ armPage' = [armPage EXCEPT ![p] = "start"]
              /\ UNCHANGED <<armSession, shownArms>>
    /\ counterHolder' = Nobody
    /\ creating' = [creating EXCEPT ![p] = NoCreate]
    /\ UNCHANGED <<offlineOnly, materialised, resumable>>

RollbackCreate(p) ==
    /\ creating[p].step # "none"
    /\ setbacks < MaxSetbacks /\ setbacks' = setbacks + 1
    /\ counterHolder' = Nobody
    /\ creating' = [creating EXCEPT ![p] = NoCreate]
    /\ armPage' = [armPage EXCEPT ![p] = "start"]
    /\ UNCHANGED <<nextNumber, armCount, armSession, resumable, shownArms,
                   armRowVars>>

(* Offline the session is made on the device, without number and arm.       *)
StartOffline(p) ==
    /\ armPage[p] = "start" /\ sessionsMade < MaxSessions
    /\ sessionsMade' = sessionsMade + 1
    /\ offlineOnly' = offlineOnly \cup {sessionsMade'}
    /\ armPage' = [armPage EXCEPT ![p] = "running"]
    /\ armSession' = [armSession EXCEPT ![p] = sessionsMade']
    /\ shownArms' = [shownArms EXCEPT ![sessionsMade'] = {LocalArm}]
    /\ UNCHANGED <<counterVars, creating, created, materialised, resumable,
                   setbacks>>

(* The first sync inserts the row without either.                           *)
SyncOffline(s) ==
    /\ s \in offlineOnly
    /\ offlineOnly' = offlineOnly \ {s} /\ materialised' = materialised \cup {s}
    /\ UNCHANGED <<counterVars, creating, armPageVars, sessionsMade, created,
                   setbacks>>

StoreFirstAnswer(p) ==
    /\ armPage[p] = "running"
    /\ resumable' = resumable \cup {armSession[p]}
    /\ UNCHANGED <<counterVars, creating, armPage, armSession, shownArms,
                   armRowVars, setbacks>>

(* A resume passes neither number nor assignment to the runtime; a session  *)
(* without answers is left behind.                                          *)
ReloadPage(p) ==
    /\ armPage[p] = "running"
    /\ IF armSession[p] \in resumable
       THEN /\ shownArms' = [shownArms EXCEPT ![armSession[p]] = @ \cup {LocalArm}]
            /\ UNCHANGED <<armPage, armSession>>
       ELSE /\ armPage' = [armPage EXCEPT ![p] = "start"]
            /\ armSession' = [armSession EXCEPT ![p] = 0]
            /\ UNCHANGED shownArms
    /\ UNCHANGED <<counterVars, creating, resumable, armRowVars, setbacks>>

ArmsNext ==
    \/ \E p \in Participant :
        \/ RequestCreate(p) \/ AllocateNumber(p) \/ ClaimArm(p) \/ CommitCreate(p)
        \/ RollbackCreate(p) \/ StartOffline(p) \/ StoreFirstAnswer(p) \/ ReloadPage(p)
    \/ \E s \in SessionNo : SyncOffline(s)

ArmsSpec == ArmsInit /\ [][ArmsNext]_armVars

-----------------------------------------------------------------------------
(* Concurrent, failed and abandoned creates leave no gap and no duplicate   *)
(* in the participant numbers.                                              *)
NumbersAreDense ==
    /\ {r.number : r \in created} = {n \in 0 .. nextNumber : n < nextNumber}
    /\ \A q, r \in created : q.number = r.number => q = r

(* The arms of the sessions the server made differ by at most one session,  *)
(* whatever creates ran at once or rolled back.                             *)
SessionsOf(a) == Cardinality({r \in created : r.arm = a})
ArmsStayBalanced == \A a, b \in Arm : SessionsOf(a) <= SessionsOf(b) + 1

(* A session shows the blocks of the one arm the server assigned it.        *)
SessionKeepsItsArm == \A r \in created : shownArms[r.session] \subseteq {r.arm}
=============================================================================
