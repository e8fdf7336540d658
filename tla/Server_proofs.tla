---------------------------- MODULE Server_proofs ---------------------------
(***************************************************************************)
(* Proofs about what the server allots, slots of quota cells               *)
(* (QuotaCompletion) and arms (ArmAssignment), for any sessions, cells,    *)
(* targets, participants and arms; and about the server that MCServer      *)
(* composes of these and of the components whose proofs it extends.        *)
(***************************************************************************)
EXTENDS MCServer, ErasureLedger_proofs, YjsRoom_proofs, SeriesWaves_proofs, LibraryFacts

(* A claim under way holds the row of its cell and has read what is there; *)
(* a request is under way only for a finished session; every               *)
(* extra slot goes with a request sent again; an entrant is not flagged.   *)
ClaimInv ==
    \A s \in Session :
        /\ tx[s] = "locked" => /\ pin[s] # None
                               /\ lock[pin[s]] = s
                               /\ saw[s] = current[pin[s]]
        /\ tx[s] # "idle" => page[s] = "finished"
        /\ slots[s] <= resends + (IF page[s] = "acked" THEN 1 ELSE 0)
        /\ page[s] = "entry" => ~overflow[s]

QuotaInv == TypeOK /\ ClaimInv /\ CapHolds /\ FlaggedOnlyWhenFull /\ CountedOrFlagged

LEMMA InitQuota == Init => QuotaInv
  BY QuotaAssumption
     DEF Init, QuotaInv, TypeOK, PageState, ClaimInv, CapHolds,
         FlaggedOnlyWhenFull, CountedOrFlagged

(* The lock of another session's claim survives. *)
LEMMA ReleaseKeeps ==
    ASSUME TypeOK, NEW s \in Session
    PROVE  /\ Release(s) \in [Cell -> Session \cup {None}]
           /\ \A c \in Cell : lock[c] # s => Release(s)[c] = lock[c]
  BY DEF TypeOK, Release

LEMMA CommitKeeps ==
    ASSUME QuotaInv, NEW s \in Session, Commit(s)
    PROVE  QuotaInv'
  <1> DEFINE c == pin[s]
  <1> USE QuotaAssumption
  <1>1. /\ c \in Cell /\ lock[c] = s /\ saw[s] = current[c]
        /\ page[s] = "finished" /\ slots[s] <= resends
    BY DEF QuotaInv, ClaimInv, TypeOK, Commit
  <1>2. /\ page' \in [Session -> PageState]
        /\ resends' \in 0..MaxResend
        /\ resends <= resends'
        /\ \/ page'[s] = "acked" /\ resends' = resends
           \/ page'[s] # "acked" /\ resends' = resends + 1
        /\ page'[s] # "entry"
        /\ \A t \in Session \ {s} : page'[t] = page[t]
    BY <1>1 DEF Commit, Answer, QuotaInv, TypeOK, PageState
  <1>3. /\ slots' \in [Session -> Nat]
        /\ slots'[s] <= slots[s] + 1
        /\ \A t \in Session \ {s} : slots'[t] = slots[t]
    BY DEF Commit, QuotaInv, TypeOK
  <1>4. \A t \in Session : slots'[t] <= resends' + (IF page'[t] = "acked" THEN 1 ELSE 0)
    <2> SUFFICES ASSUME NEW t \in Session
                 PROVE  slots'[t] <= resends' + (IF page'[t] = "acked" THEN 1 ELSE 0)
      OBVIOUS
    <2>1. CASE t = s
      BY <1>1, <1>2, <1>3, <2>1 DEF QuotaInv, TypeOK
    <2>2. CASE t # s
      BY <1>2, <1>3, <2>2 DEF QuotaInv, ClaimInv, TypeOK
    <2> QED BY <2>1, <2>2
  <1>5. TypeOK'
    <2>1. slots' \in [Session -> 0..MaxResend + 1]
      BY <1>2, <1>3, <1>4
    <2>2. lock' \in [Cell -> Session \cup {None}]
      BY ReleaseKeeps DEF Commit, QuotaInv
    <2>3. overflow' \in [Session -> BOOLEAN]
      BY DEF Commit, QuotaInv, TypeOK
    <2>4. current' \in [Cell -> Nat]
      BY DEF Commit, QuotaInv, TypeOK
    <2>5. /\ status' \in [Session -> {"none", "active", "completed"}]
          /\ tx' \in [Session -> {"idle", "claim", "locked"}]
          /\ UNCHANGED <<pin, saw>>
      BY DEF Commit, QuotaInv, TypeOK
    <2> QED BY <1>2, <2>1, <2>2, <2>3, <2>4, <2>5 DEF QuotaInv, TypeOK
  <1>6. ClaimInv'
    <2> SUFFICES ASSUME NEW t \in Session
                 PROVE  /\ tx'[t] = "locked" => /\ pin'[t] # None
                                                /\ lock'[pin'[t]] = t
                                                /\ saw'[t] = current'[pin'[t]]
                        /\ tx'[t] # "idle" => page'[t] = "finished"
                        /\ page'[t] = "entry" => ~overflow'[t]
      BY <1>4 DEF ClaimInv
    <2>1. CASE t = s
      BY <1>2, <2>1 DEF Commit, QuotaInv, TypeOK
    <2>2. CASE t # s
      (* another claim under way is on another cell *)
      <3>1. tx[t] = "locked" => pin[t] # c /\ pin[t] \in Cell
        BY <1>1, <2>2 DEF QuotaInv, ClaimInv, TypeOK
      <3> QED BY <1>1, <1>2, <2>2, <3>1, ReleaseKeeps
                 DEF Commit, QuotaInv, ClaimInv, TypeOK
    <2> QED BY <2>1, <2>2
  <1>7. CapHolds'
    BY <1>1 DEF Commit, QuotaInv, TypeOK, CapHolds, Full
  <1>8. FlaggedOnlyWhenFull'
    BY <1>1 DEF Commit, QuotaInv, TypeOK, FlaggedOnlyWhenFull, Full
  <1>9. CountedOrFlagged'
    BY <1>1, <1>2 DEF Commit, QuotaInv, TypeOK, CountedOrFlagged
  <1> QED BY <1>5, <1>6, <1>7, <1>8, <1>9 DEF QuotaInv

(* Every other step. *)
LEMMA OthersKeep ==
    ASSUME QuotaInv, NEW s \in Session,
           \/ Admit(s) \/ TurnAway(s) \/ Finish(s) \/ PatchCompleted(s)
           \/ BeginSync(s) \/ LockCell(s) \/ CommitUnpinned(s) \/ Rollback(s)
    PROVE  QuotaInv'
  <1> USE QuotaAssumption
          DEF QuotaInv, TypeOK, PageState, ClaimInv, CapHolds,
              FlaggedOnlyWhenFull, CountedOrFlagged, deviceVars, dbVars, txVars
  <1>1. CASE Admit(s)
    BY <1>1 DEF Admit
  <1>2. CASE TurnAway(s)
    BY <1>2 DEF TurnAway
  <1>3. CASE Finish(s)
    BY <1>3 DEF Finish
  <1>4. CASE PatchCompleted(s)
    BY <1>4 DEF PatchCompleted
  <1>5. CASE BeginSync(s)
    BY <1>5 DEF BeginSync, Unanswered
  <1>6. CASE LockCell(s)
    BY <1>6 DEF LockCell, Claims, Free
  <1>7. CASE CommitUnpinned(s)
    BY <1>7 DEF CommitUnpinned, Claims, Answer
  <1>8. CASE Rollback(s)
    BY <1>8, ReleaseKeeps DEF Rollback
  <1> QED BY <1>1, <1>2, <1>3, <1>4, <1>5, <1>6, <1>7, <1>8

THEOREM QuotaInvariant == Spec => []QuotaInv
  <1>1. ASSUME QuotaInv, UNCHANGED vars PROVE QuotaInv'
    BY <1>1 DEF QuotaInv, TypeOK, ClaimInv, CapHolds, FlaggedOnlyWhenFull,
                CountedOrFlagged, Full, vars, deviceVars, dbVars, txVars
  <1>2. QuotaInv /\ [Next]_vars => QuotaInv'
    BY <1>1, CommitKeeps, OthersKeep DEF Next, Sync
  <1> QED BY InitQuota, <1>2, PTL DEF Spec

(* Type correctness: a session takes at most one slot for each completion  *)
(* request it had to send.                                                 *)
THEOREM QuotaTypeCorrect == Spec => []TypeOK
  BY QuotaInvariant, PTL DEF QuotaInv

(* However many completions race, retry or roll back, a capped cell never  *)
(* exceeds its target (claim_quota_cell's row lock).                       *)
THEOREM CapIsExact == Spec => []CapHolds
  BY QuotaInvariant, PTL DEF QuotaInv

(* The over-quota flag is only set over a cell that is, and stays, full.   *)
THEOREM FlagMeansFull == Spec => []FlaggedOnlyWhenFull
  BY QuotaInvariant, PTL DEF QuotaInv

(* An answered completion is counted in its cell or flagged, whichever     *)
(* path made the session completed first.                                  *)
THEOREM NoCompletionUncounted == Spec => []CountedOrFlagged
  BY QuotaInvariant, PTL DEF QuotaInv

-----------------------------------------------------------------------------
CreateSteps == {"none", "numbered", "claimed"}

(* An open create holds the counter row, so the number it read is still the *)
(* next one and nobody else has read it.                                    *)
HolderInv ==
    /\ nextNumber \in Nat
    /\ creating = [p \in Participant |-> creating[p]]
    /\ \A p \in Participant :
        /\ creating[p] \in [step : CreateSteps, number : Nat, arm : {creating[p].arm}]
        /\ creating[p].step # "none" =>
                counterHolder = p /\ creating[p].number = nextNumber

NumbersInv ==
    /\ HolderInv
    /\ \A r \in created : r.number \in Nat /\ r.number < nextNumber
    /\ \A n \in Nat : n < nextNumber => \E r \in created : r.number = n
    /\ \A q, r \in created : q.number = r.number => q = r

LEMMA InitNumbers == ArmsInit => NumbersInv
  BY DEF ArmsInit, NumbersInv, HolderInv, NoCreate, CreateSteps

LEMMA AllocateNumbers ==
    ASSUME NumbersInv, NEW p \in Participant, AllocateNumber(p) PROVE NumbersInv'
  <1>1. /\ counterHolder = Nobody /\ counterHolder' = p
        /\ creating' = [creating EXCEPT ![p] =
                [@ EXCEPT !.step = "numbered", !.number = nextNumber]]
        /\ nextNumber' = nextNumber /\ created' = created
    BY DEF AllocateNumber, armRowVars
  <1>2. \A q \in Participant : creating[q].step = "none"
    BY <1>1, ArmAssumption DEF NumbersInv, HolderInv
  <1>3. /\ creating' = [q \in Participant |-> creating'[q]]
        /\ creating'[p].step = "numbered" /\ creating'[p].number = nextNumber
        /\ creating'[p] \in [step : CreateSteps, number : Nat, arm : {creating[p].arm}]
        /\ \A q \in Participant \ {p} : creating'[q] = creating[q]
    BY <1>1 DEF NumbersInv, HolderInv, CreateSteps
  <1>4. HolderInv'
    BY <1>1, <1>2, <1>3 DEF NumbersInv, HolderInv
  <1>5. QED
    BY <1>1, <1>4 DEF NumbersInv

LEMMA ClaimNumbers ==
    ASSUME NumbersInv, NEW p \in Participant, ClaimArm(p) PROVE NumbersInv'
  <1>1. /\ creating[p].step = "numbered"
        /\ creating' = [creating EXCEPT ![p] =
                [@ EXCEPT !.step = "claimed", !.arm = ClaimedArm]]
        /\ UNCHANGED <<nextNumber, counterHolder, created>>
    BY DEF ClaimArm, armRowVars, counterVars
  <1>2. /\ creating' = [q \in Participant |-> creating'[q]]
        /\ creating'[p].number = creating[p].number
        /\ creating'[p] \in [step : CreateSteps, number : Nat, arm : {ClaimedArm}]
        /\ \A q \in Participant \ {p} : creating'[q] = creating[q]
    BY <1>1 DEF NumbersInv, HolderInv, CreateSteps
  <1>3. HolderInv'
    BY <1>1, <1>2 DEF NumbersInv, HolderInv
  <1>4. QED
    BY <1>1, <1>3 DEF NumbersInv

(* A create that ends, one way or the other, was the only open one.         *)
LEMMA CloseCreate ==
    ASSUME HolderInv, NEW p \in Participant, creating[p].step # "none",
           creating' = [creating EXCEPT ![p] = NoCreate], nextNumber' \in Nat
    PROVE  HolderInv'
  <1>1. \A q \in Participant \ {p} : creating[q].step = "none"
    BY DEF HolderInv
  <1>2. /\ creating' = [q \in Participant |-> creating'[q]]
        /\ creating'[p] = NoCreate
        /\ \A q \in Participant \ {p} : creating'[q] = creating[q]
    BY DEF HolderInv
  <1>3. QED
    BY <1>1, <1>2 DEF HolderInv, NoCreate, CreateSteps

LEMMA RollbackNumbers ==
    ASSUME NumbersInv, NEW p \in Participant, RollbackCreate(p) PROVE NumbersInv'
  <1>1. /\ creating[p].step # "none" /\ creating' = [creating EXCEPT ![p] = NoCreate]
        /\ nextNumber' = nextNumber /\ created' = created
    BY DEF RollbackCreate, armRowVars
  <1>2. HolderInv'
    BY <1>1, CloseCreate DEF NumbersInv, HolderInv
  <1>3. QED
    BY <1>1, <1>2 DEF NumbersInv

(* What a commit adds: the next number, once.                               *)
LEMMA CommitAdds ==
    ASSUME NumbersInv, NEW p \in Participant, CommitCreate(p)
    PROVE  \E s : created' = created \cup
                {[session |-> s, number |-> nextNumber, arm |-> creating[p].arm]}
  <1>1. creating[p].step = "claimed" /\ creating[p].number = nextNumber
    BY DEF CommitCreate, NumbersInv, HolderInv
  <1>2. created' = created \cup {[session |-> sessionsMade', number |-> nextNumber,
                                  arm |-> creating[p].arm]}
    BY <1>1 DEF CommitCreate
  <1>3. QED
    BY <1>2

LEMMA CommitNumbers ==
    ASSUME NumbersInv, NEW p \in Participant, CommitCreate(p) PROVE NumbersInv'
  <1>1. /\ creating[p].step # "none" /\ creating' = [creating EXCEPT ![p] = NoCreate]
        /\ creating[p].number = nextNumber /\ nextNumber' = nextNumber + 1
    BY DEF CommitCreate, NumbersInv, HolderInv
  <1>2. PICK s : created' = created \cup
                    {[session |-> s, number |-> nextNumber, arm |-> creating[p].arm]}
    BY CommitAdds
  <1> DEFINE row == [session |-> s, number |-> nextNumber, arm |-> creating[p].arm]
  <1>3. row.number = nextNumber /\ created' = created \cup {row}
    BY <1>2
  <1> HIDE DEF row
  <1>4. nextNumber \in Nat
    BY DEF NumbersInv, HolderInv
  <1>5. HolderInv'
    <2>1. nextNumber' \in Nat /\ HolderInv
      BY <1>1, <1>4 DEF NumbersInv
    <2>2. QED
      BY <2>1, <1>1, CloseCreate
  <1>6. (\A r \in created : r.number \in Nat /\ r.number < nextNumber)'
    BY <1>1, <1>3, <1>4 DEF NumbersInv
  <1>7. (\A n \in Nat : n < nextNumber => \E r \in created : r.number = n)'
    <2>1. SUFFICES ASSUME NEW n \in Nat, n < nextNumber + 1
                   PROVE  \E r \in created' : r.number = n
      BY <1>1
    <2>2. CASE n = nextNumber
      BY <2>2, <1>3
    <2>3. CASE n < nextNumber
      BY <2>3, <1>3 DEF NumbersInv
    <2>4. QED
      BY <2>1, <2>2, <2>3, <1>4
  <1>8. (\A q, r \in created : q.number = r.number => q = r)'
    <2>1. \A r \in created : r.number # nextNumber
      BY <1>4 DEF NumbersInv
    <2>2. QED
      BY <2>1, <1>3 DEF NumbersInv
  <1>9. QED
    BY <1>5, <1>6, <1>7, <1>8 DEF NumbersInv

(* The other steps take no number.                                          *)
LEMMA OtherNumbers ==
    ASSUME NumbersInv, UNCHANGED <<nextNumber, counterHolder, creating, created>>
    PROVE  NumbersInv'
  BY DEF NumbersInv, HolderInv

LEMMA StepNumbers == NumbersInv /\ [ArmsNext]_armVars => NumbersInv'
  <1> SUFFICES ASSUME NumbersInv, [ArmsNext]_armVars PROVE NumbersInv'
    OBVIOUS
  <1>1. ASSUME NEW p \in Participant, AllocateNumber(p) \/ ClaimArm(p)
                                        \/ CommitCreate(p) \/ RollbackCreate(p)
        PROVE  NumbersInv'
    BY <1>1, AllocateNumbers, ClaimNumbers, CommitNumbers, RollbackNumbers
  <1>2. ASSUME NEW p \in Participant, RequestCreate(p) \/ StartOffline(p)
                                        \/ StoreFirstAnswer(p) \/ ReloadPage(p)
        PROVE  NumbersInv'
    BY <1>2, OtherNumbers
       DEF RequestCreate, StartOffline, StoreFirstAnswer, ReloadPage, counterVars,
           armRowVars
  <1>3. ASSUME NEW s \in SessionNo, SyncOffline(s) PROVE NumbersInv'
    BY <1>3, OtherNumbers DEF SyncOffline, counterVars
  <1>4. CASE UNCHANGED armVars
    BY <1>4, OtherNumbers DEF armVars, counterVars, armRowVars
  <1>5. QED
    BY <1>1, <1>2, <1>3, <1>4 DEF ArmsNext

(* The invariant of the counters and of the creates under way.              *)
THEOREM CountersHeld == ArmsSpec => []NumbersInv
  BY InitNumbers, StepNumbers, PTL DEF ArmsSpec

(* The participant numbers are dense and unique, whatever creates run at    *)
(* once, roll back or lose their answer (create_session,                    *)
(* allocate_participant_number).                                            *)
THEOREM DenseNumbers == ArmsSpec => []NumbersAreDense
  <1>1. NumbersInv => NumbersAreDense
    <2> SUFFICES ASSUME NumbersInv PROVE NumbersAreDense
      OBVIOUS
    <2>1. nextNumber \in Nat
      BY DEF NumbersInv, HolderInv
    <2>2. {r.number : r \in created} = {n \in 0 .. nextNumber : n < nextNumber}
      BY <2>1 DEF NumbersInv
    <2>3. QED
      BY <2>2 DEF NumbersInv, NumbersAreDense
  <1>2. QED
    BY <1>1, CountersHeld, PTL

-----------------------------------------------------------------------------
(* The arms taken stay even.  The arm of an open create is the one its      *)
(* claim would still take when it commits, for the counter row keeps other  *)
(* commits out; in sequence, the arms up to the one last taken are one      *)
(* session ahead of the others.                                             *)
Emptiest(a) == a \in Arm /\ \A b \in Arm : armCount[a] <= armCount[b]
LastOfRound == SumFunction(armCount) % ArmCount
RoundInv ==
    \E q \in Nat : \A a \in Arm : armCount[a] = IF a <= LastOfRound THEN q + 1 ELSE q
EvenInv ==
    /\ NumbersInv
    /\ IsFiniteSet(created) /\ armCount \in [Arm -> Nat]
    /\ \A a \in Arm : armCount[a] = SessionsOf(a)
    /\ \A a, b \in Arm : armCount[a] <= armCount[b] + 1
    /\ Strategy = "sequential" => RoundInv
    /\ \A p \in Participant :
            creating[p].step = "claimed" => creating[p].arm = ClaimedArm

LEMMA ArmFacts ==
    /\ IsFiniteSet(Arm) /\ Arm \subseteq Nat /\ 1 \in Arm
    /\ ArmCount \in Nat \ {0} /\ Arm = 1 .. ArmCount
  <1>1. ArmCount \in Nat \ {0} /\ Arm = 1 .. ArmCount
    BY ArmAssumption DEF Arm
  <1>2. IsFiniteSet(1 .. ArmCount)
    BY <1>1, FS_Interval
  <1>3. QED
    BY <1>1, <1>2

LEMMA InitEven == ArmsInit => EvenInv
  <1> SUFFICES ASSUME ArmsInit PROVE EvenInv
    OBVIOUS
  <1>1. /\ created = {} /\ armCount = [a \in Arm |-> 0]
        /\ \A p \in Participant : creating[p].step = "none"
    BY DEF ArmsInit, NoCreate
  <1>2. \A a \in Arm : {r \in created : r.arm = a} = {}
    BY <1>1
  <1>3. RoundInv
    <2>1. SumFunction(armCount) = 0
      BY <1>1, ArmFacts, SumOfZeros
    <2>2. LastOfRound = 0
      BY <2>1, ArmFacts DEF LastOfRound
    <2>3. QED
      BY <1>1, <2>2, ArmFacts DEF RoundInv
  <1>4. QED
    BY <1>1, <1>2, <1>3, InitNumbers, FS_EmptySet DEF EvenInv, SessionsOf

(* An arm of fewest sessions exists, and the claim takes the first of them. *)
LEMMA LeastArmIsEmptiest ==
    ASSUME armCount \in [Arm -> Nat], Strategy # "sequential" PROVE Emptiest(ClaimedArm)
  <1> DEFINE C == {armCount[a] : a \in Arm}
             T == {a \in Arm : \A b \in Arm : armCount[a] <= armCount[b]}
  <1>1. Arm \subseteq Nat /\ 1 \in Arm
    BY ArmFacts
  <1>2. Min(C) \in C /\ \A y \in C : Min(C) <= y
    <2>1. C \in SUBSET Nat /\ C # {}
      BY <1>1
    <2> HIDE DEF C
    <2>2. QED
      BY <2>1, MinIsLeast
  <1>3. PICK a \in Arm : armCount[a] = Min(C)
    BY <1>2
  <1>4. a \in T
    BY <1>2, <1>3
  <1>5. Min(T) \in T
    <2>1. T \in SUBSET Nat /\ T # {}
      BY <1>1, <1>4
    <2> HIDE DEF T
    <2>2. QED
      BY <2>1, MinIsLeast
  <1>6. QED
    BY <1>5 DEF ClaimedArm, Emptiest

(* In sequence the claim takes the arm after the last one of the round.     *)
LEMMA RoundFacts ==
    ASSUME armCount \in [Arm -> Nat]
    PROVE  /\ SumFunction(armCount) \in Nat
           /\ LastOfRound \in 0 .. ArmCount - 1 /\ LastOfRound + 1 \in Arm
           /\ Strategy = "sequential" => ClaimedArm = LastOfRound + 1
  <1>1. SumFunction(armCount) \in Nat
    BY ArmFacts, SumIsNat
  <1>2. LastOfRound \in 0 .. ArmCount - 1
    BY <1>1, ArmFacts, NextRemainder DEF LastOfRound
  <1>3. LastOfRound + 1 \in Arm
    BY <1>2, ArmFacts
  <1>4. QED
    BY <1>1, <1>2, <1>3 DEF ClaimedArm, LastOfRound

LEMMA ClaimIsEmptiest ==
    ASSUME armCount \in [Arm -> Nat], Strategy = "sequential" => RoundInv
    PROVE  Emptiest(ClaimedArm)
  <1>1. CASE Strategy # "sequential"
    BY <1>1, LeastArmIsEmptiest
  <1>2. CASE Strategy = "sequential"
    <2>1. /\ LastOfRound \in 0 .. ArmCount - 1 /\ LastOfRound + 1 \in Arm
          /\ ClaimedArm = LastOfRound + 1
      BY <1>2, RoundFacts
    <2>2. PICK q \in Nat :
              \A a \in Arm : armCount[a] = IF a <= LastOfRound THEN q + 1 ELSE q
      BY <1>2 DEF RoundInv
    <2> HIDE DEF LastOfRound
    <2>3. armCount[ClaimedArm] = q /\ \A b \in Arm : q <= armCount[b]
      BY <2>1, <2>2
    <2>4. QED
      BY <2>1, <2>3 DEF Emptiest
  <1>3. QED
    BY <1>1, <1>2

(* The commit of that arm makes it the last one of the round.               *)
LEMMA CommitRound ==
    ASSUME armCount \in [Arm -> Nat], RoundInv,
           armCount' = [armCount EXCEPT ![LastOfRound + 1] = @ + 1]
    PROVE  RoundInv'
  <1> DEFINE last == LastOfRound
             next == SumFunction(armCount') % ArmCount
  <1>1. /\ SumFunction(armCount) \in Nat
        /\ last \in 0 .. ArmCount - 1 /\ last + 1 \in Arm
    BY RoundFacts
  <1>2. SumFunction(armCount') = SumFunction(armCount) + 1
    BY <1>1, ArmFacts, SumOfOneMore
  <1>3. next = IF last + 1 = ArmCount THEN 0 ELSE last + 1
    BY <1>1, <1>2, ArmFacts, NextRemainder DEF LastOfRound
  <1>4. PICK q \in Nat : \A a \in Arm : armCount[a] = IF a <= last THEN q + 1 ELSE q
    BY DEF RoundInv
  <1>5. \A a \in Arm : armCount'[a] = IF a = last + 1 THEN armCount[a] + 1 ELSE armCount[a]
    BY <1>1
  <1>6. LastOfRound' = next
    BY DEF LastOfRound
  <1> HIDE DEF last, next
  <1>7. \A a \in Arm : armCount'[a] = IF a <= last + 1 THEN q + 1 ELSE q
    BY <1>1, <1>4, <1>5, ArmFacts
  <1>8. CASE last + 1 = ArmCount
    <2>1. \A a \in Arm : armCount'[a] = IF a <= next THEN (q + 1) + 1 ELSE q + 1
      BY <1>1, <1>3, <1>7, <1>8, ArmFacts
    <2>2. QED
      BY <1>6, <2>1 DEF RoundInv
  <1>9. CASE last + 1 # ArmCount
    BY <1>3, <1>6, <1>7, <1>9 DEF RoundInv
  <1>10. QED
    BY <1>8, <1>9

LEMMA CommitEven ==
    ASSUME EvenInv, NEW p \in Participant, CommitCreate(p) PROVE EvenInv'
  <1> DEFINE a0 == creating[p].arm
  <1>1. /\ creating[p].step = "claimed"
        /\ armCount' = [armCount EXCEPT ![a0] = @ + 1]
        /\ creating' = [creating EXCEPT ![p] = NoCreate]
    BY DEF CommitCreate
  <1>2. a0 = ClaimedArm /\ Emptiest(a0) /\ a0 \in Arm
    BY <1>1, ClaimIsEmptiest DEF EvenInv, Emptiest
  <1>3. NumbersInv'
    BY CommitNumbers DEF EvenInv
  <1>4. PICK s : created' = created \cup
                    {[session |-> s, number |-> nextNumber, arm |-> a0]}
    BY CommitAdds DEF EvenInv
  <1> DEFINE row == [session |-> s, number |-> nextNumber, arm |-> a0]
  <1>5. row.number = nextNumber /\ row.arm = a0 /\ created' = created \cup {row}
    BY <1>4
  <1> HIDE DEF row, a0
  <1>6. row \notin created
    BY <1>5 DEF EvenInv, NumbersInv, HolderInv
  <1>7. IsFiniteSet(created')
    BY <1>5, FS_AddElement DEF EvenInv
  <1>8. armCount' \in [Arm -> Nat]
        /\ \A a \in Arm : armCount'[a] = IF a = a0 THEN armCount[a] + 1 ELSE armCount[a]
    BY <1>1, <1>2 DEF EvenInv
  <1>9. ASSUME NEW a \in Arm PROVE armCount'[a] = SessionsOf(a)'
    <2> DEFINE R == {r \in created : r.arm = a}
    <2>1. IsFiniteSet(R)
      BY FS_Subset DEF EvenInv
    <2>2. CASE a = a0
      <3>1. {r \in created' : r.arm = a} = R \cup {row}
        BY <2>2, <1>5
      <3>2. Cardinality(R \cup {row}) = Cardinality(R) + 1
        BY <2>1, <1>6, FS_AddElement
      <3>3. QED
        BY <3>1, <3>2, <2>2, <1>8 DEF EvenInv, SessionsOf
    <2>3. CASE a # a0
      <3>1. {r \in created' : r.arm = a} = R
        BY <2>3, <1>5
      <3>2. QED
        BY <3>1, <2>3, <1>8 DEF EvenInv, SessionsOf
    <2>4. QED
      BY <2>2, <2>3
  <1>10. (\A a, b \in Arm : armCount[a] <= armCount[b] + 1)'
    BY <1>2, <1>8 DEF EvenInv, Emptiest
  <1>11. \A q \in Participant : creating'[q].step = "none"
    BY <1>1 DEF EvenInv, NumbersInv, HolderInv, NoCreate
  <1>12. Strategy = "sequential" => RoundInv'
    BY <1>1, <1>2, RoundFacts, CommitRound DEF EvenInv, a0
  <1>13. QED
    BY <1>3, <1>7, <1>8, <1>9, <1>10, <1>11, <1>12 DEF EvenInv

(* No other step changes the rows or the counts; only the claim takes an    *)
(* arm.                                                                     *)
LEMMA OtherEven ==
    ASSUME EvenInv, NumbersInv', UNCHANGED <<armCount, created>>,
           \A p \in Participant : creating'[p].step = "claimed" =>
                creating'[p] = creating[p] \/ creating'[p].arm = ClaimedArm
    PROVE  EvenInv'
  <1>1. ClaimedArm' = ClaimedArm
    BY DEF ClaimedArm
  <1>2. RoundInv => RoundInv'
    BY DEF RoundInv, LastOfRound
  <1>3. QED
    BY <1>1, <1>2 DEF EvenInv, SessionsOf

LEMMA StepEven == ASSUME EvenInv, [ArmsNext]_armVars PROVE EvenInv'
  <1>1. NumbersInv'
    BY StepNumbers DEF EvenInv
  <1>2. \A p \in Participant :
            creating[p] \in [step : CreateSteps, number : Nat, arm : {creating[p].arm}]
    BY DEF EvenInv, NumbersInv, HolderInv
  <1>3. creating = [p \in Participant |-> creating[p]]
    BY DEF EvenInv, NumbersInv, HolderInv
  <1>4. ASSUME NEW p \in Participant, AllocateNumber(p) PROVE EvenInv'
    <2>1. /\ creating' = [creating EXCEPT ![p] =
                [@ EXCEPT !.step = "numbered", !.number = nextNumber]]
          /\ UNCHANGED <<armCount, created>>
      BY <1>4 DEF AllocateNumber, armRowVars
    <2>2. \A q \in Participant : creating'[q].step = "claimed" =>
                creating'[q] = creating[q]
      BY <2>1, <1>2, <1>3 DEF CreateSteps
    <2>3. QED
      BY <2>1, <2>2, <1>1, OtherEven
  <1>5. ASSUME NEW p \in Participant, ClaimArm(p) PROVE EvenInv'
    <2>1. /\ creating' = [creating EXCEPT ![p] =
                [@ EXCEPT !.step = "claimed", !.arm = ClaimedArm]]
          /\ UNCHANGED <<armCount, created>>
      BY <1>5 DEF ClaimArm, armRowVars, counterVars
    <2>2. /\ creating'[p].arm = ClaimedArm
          /\ \A q \in Participant \ {p} : creating'[q] = creating[q]
      BY <2>1, <1>2, <1>3 DEF CreateSteps
    <2>3. QED
      BY <2>1, <2>2, <1>1, OtherEven
  <1>6. ASSUME NEW p \in Participant, RollbackCreate(p) PROVE EvenInv'
    <2>1. /\ creating' = [creating EXCEPT ![p] = NoCreate]
          /\ UNCHANGED <<armCount, created>>
      BY <1>6 DEF RollbackCreate, armRowVars
    <2>2. \A q \in Participant : creating'[q].step = "claimed" =>
                creating'[q] = creating[q]
      BY <2>1, <1>3 DEF NoCreate
    <2>3. QED
      BY <2>1, <2>2, <1>1, OtherEven
  <1>7. ASSUME NEW p \in Participant, CommitCreate(p) PROVE EvenInv'
    BY <1>7, CommitEven
  <1>8. ASSUME NEW p \in Participant, RequestCreate(p) \/ StartOffline(p)
                                        \/ StoreFirstAnswer(p) \/ ReloadPage(p)
        PROVE  EvenInv'
    BY <1>1, <1>8, OtherEven
       DEF RequestCreate, StartOffline, StoreFirstAnswer, ReloadPage, counterVars,
           armRowVars
  <1>9. ASSUME NEW s \in SessionNo, SyncOffline(s) PROVE EvenInv'
    BY <1>1, <1>9, OtherEven DEF SyncOffline, counterVars
  <1>10. CASE UNCHANGED armVars
    BY <1>1, <1>10, OtherEven DEF armVars, counterVars, armRowVars
  <1>11. QED
    BY <1>4, <1>5, <1>6, <1>7, <1>8, <1>9, <1>10 DEF ArmsNext

LEMMA EvenInvariant == ArmsSpec => []EvenInv
  <1>1. EvenInv /\ [ArmsNext]_armVars => EvenInv'
    BY StepEven
  <1>2. QED
    BY InitEven, <1>1, PTL DEF ArmsSpec

(* Whatever the strategy, the sessions the server made differ by at most    *)
(* one between any two arms (claim_experiment_arm).                         *)
THEOREM EvenArms == ArmsSpec => []ArmsStayBalanced
  <1>1. EvenInv => ArmsStayBalanced
    BY DEF EvenInv, ArmsStayBalanced
  <1>2. QED
    BY EvenInvariant, <1>1, PTL

(* A page that runs has a session.                                          *)
PagesInv ==
    /\ ArmsTypeOK
    /\ \A p \in Participant : armPage[p] = "running" => armSession[p] \in SessionNo

LEMMA InitPages == ArmsInit => PagesInv
  <1>1. /\ NoCreate \in [step : {"none", "numbered", "claimed"}, number : Nat, arm : Arm \cup {0}]
        /\ 0 \in 0 .. MaxSessions /\ 0 \in 0 .. MaxSetbacks
    BY ArmAssumption DEF NoCreate
  <1>2. QED
    BY <1>1 DEF ArmsInit, PagesInv, ArmsTypeOK

(* The create of a participant.                                             *)
LEMMA CreatePages ==
    ASSUME PagesInv, EvenInv, NEW p \in Participant,
           RequestCreate(p) \/ AllocateNumber(p) \/ ClaimArm(p) \/ RollbackCreate(p)
    PROVE  PagesInv'
  <1>1. nextNumber \in Nat /\ ClaimedArm \in Arm /\ MaxSetbacks \in Nat
    BY ClaimIsEmptiest, ArmAssumption DEF PagesInv, ArmsTypeOK, EvenInv, Emptiest
  <1>2. NoCreate \in [step : {"none", "numbered", "claimed"}, number : Nat, arm : Arm \cup {0}]
    BY DEF NoCreate
  <1>3. CASE RequestCreate(p)
    BY <1>3 DEF RequestCreate, PagesInv, ArmsTypeOK, counterVars, armRowVars
  <1>4. CASE AllocateNumber(p)
    <2>1. creating' \in [Participant -> [step : {"none", "numbered", "claimed"}, number : Nat,
                                         arm : Arm \cup {0}]]
      BY <1>1, <1>4 DEF AllocateNumber, PagesInv, ArmsTypeOK
    <2>2. QED
      BY <1>4, <2>1 DEF AllocateNumber, PagesInv, ArmsTypeOK, armPageVars, armRowVars
  <1>5. CASE ClaimArm(p)
    <2>1. creating' \in [Participant -> [step : {"none", "numbered", "claimed"}, number : Nat,
                                         arm : Arm \cup {0}]]
      BY <1>1, <1>5 DEF ClaimArm, PagesInv, ArmsTypeOK
    <2>2. QED
      BY <1>5, <2>1 DEF ClaimArm, PagesInv, ArmsTypeOK, counterVars, armPageVars, armRowVars
  <1>6. CASE RollbackCreate(p)
    BY <1>1, <1>2, <1>6 DEF RollbackCreate, PagesInv, ArmsTypeOK, armRowVars
  <1>7. QED
    BY <1>3, <1>4, <1>5, <1>6

LEMMA CommitPages ==
    ASSUME PagesInv, EvenInv, NEW p \in Participant, CommitCreate(p)
    PROVE  PagesInv'
  <1> DEFINE a == creating[p].arm
             s == sessionsMade + 1
             row == [session |-> s, number |-> creating[p].number, arm |-> a]
  <1>1. a \in Arm /\ creating[p].number \in Nat
    BY ClaimIsEmptiest DEF CommitCreate, PagesInv, ArmsTypeOK, EvenInv, Emptiest
  <1>2. s \in SessionNo /\ s \in 0 .. MaxSessions /\ MaxSetbacks \in Nat
    BY ArmAssumption DEF CommitCreate, PagesInv, ArmsTypeOK, SessionNo
  <1>3. NoCreate \in [step : {"none", "numbered", "claimed"}, number : Nat, arm : Arm \cup {0}]
    BY DEF NoCreate
  <1>4. row \in [session : SessionNo, number : Nat, arm : Arm]
    BY <1>1, <1>2
  <1>5. /\ sessionsMade' = s /\ nextNumber' = creating[p].number + 1
        /\ armCount' = [armCount EXCEPT ![a] = @ + 1]
        /\ created' = created \cup {row}
        /\ counterHolder' = Nobody /\ creating' = [creating EXCEPT ![p] = NoCreate]
        /\ UNCHANGED <<offlineOnly, materialised, resumable>>
        /\ \/ /\ armPage' = [armPage EXCEPT ![p] = "running"]
              /\ armSession' = [armSession EXCEPT ![p] = s]
              /\ shownArms' = [shownArms EXCEPT ![s] = {a}]
              /\ UNCHANGED setbacks
           \/ /\ setbacks < MaxSetbacks /\ setbacks' = setbacks + 1
              /\ armPage' = [armPage EXCEPT ![p] = "start"]
              /\ UNCHANGED <<armSession, shownArms>>
    BY DEF CommitCreate
  <1> HIDE DEF a, s, row
  <1>6. /\ nextNumber' \in Nat /\ armCount' \in [Arm -> Nat]
        /\ created' \subseteq [session : SessionNo, number : Nat, arm : Arm]
        /\ creating' \in [Participant -> [step : {"none", "numbered", "claimed"}, number : Nat,
                                          arm : Arm \cup {0}]]
    <2>1. nextNumber' \in Nat
      BY <1>1, <1>5
    <2>2. armCount' \in [Arm -> Nat]
      BY <1>1, <1>5 DEF PagesInv, ArmsTypeOK
    <2>3. created' \subseteq [session : SessionNo, number : Nat, arm : Arm]
      BY <1>4, <1>5 DEF PagesInv, ArmsTypeOK
    <2>4. QED
      BY <1>3, <1>5, <2>1, <2>2, <2>3 DEF PagesInv, ArmsTypeOK
  <1>7. /\ armPage' \in [Participant -> {"start", "waiting", "running"}]
        /\ armSession' \in [Participant -> SessionNo \cup {0}]
        /\ shownArms' \in [SessionNo -> SUBSET Arm] /\ setbacks' \in 0 .. MaxSetbacks
        /\ \A q \in Participant : armPage'[q] = "running" => armSession'[q] \in SessionNo
    <2>1. CASE /\ armPage' = [armPage EXCEPT ![p] = "running"]
               /\ armSession' = [armSession EXCEPT ![p] = s]
               /\ shownArms' = [shownArms EXCEPT ![s] = {a}]
               /\ UNCHANGED setbacks
      <3>1. {a} \in SUBSET Arm
        BY <1>1
      <3>2. /\ armPage' \in [Participant -> {"start", "waiting", "running"}]
            /\ armSession' \in [Participant -> SessionNo \cup {0}]
            /\ shownArms' \in [SessionNo -> SUBSET Arm] /\ setbacks' \in 0 .. MaxSetbacks
        BY <1>2, <2>1, <3>1 DEF PagesInv, ArmsTypeOK
      <3>3. \A q \in Participant : armPage'[q] = "running" => armSession'[q] \in SessionNo
        BY <1>2, <2>1 DEF PagesInv, ArmsTypeOK
      <3>4. QED
        BY <3>2, <3>3
    <2>2. CASE /\ setbacks < MaxSetbacks /\ setbacks' = setbacks + 1
               /\ armPage' = [armPage EXCEPT ![p] = "start"]
               /\ UNCHANGED <<armSession, shownArms>>
      <3>1. setbacks' \in 0 .. MaxSetbacks
        BY <1>2, <2>2 DEF PagesInv, ArmsTypeOK
      <3>2. QED
        BY <2>2, <3>1 DEF PagesInv, ArmsTypeOK
    <2>3. QED
      BY <1>5, <2>1, <2>2
  <1>8. QED
    BY <1>2, <1>5, <1>6, <1>7 DEF PagesInv, ArmsTypeOK

(* A session of the device's own, and the reload.                           *)
LEMMA DevicePages ==
    ASSUME PagesInv, NEW p \in Participant,
           StartOffline(p) \/ StoreFirstAnswer(p) \/ ReloadPage(p)
    PROVE  PagesInv'
  <1>1. LocalArm \in Arm
    BY ArmAssumption, ArmFacts DEF LocalArm
  <1>2. CASE StartOffline(p)
    <2> DEFINE s == sessionsMade + 1
    <2>1. s \in SessionNo /\ s \in 0 .. MaxSessions /\ sessionsMade' = s
      BY <1>2, ArmAssumption DEF StartOffline, PagesInv, ArmsTypeOK, SessionNo
    <2> HIDE DEF s
    <2>2. QED
      BY <1>1, <1>2, <2>1 DEF StartOffline, PagesInv, ArmsTypeOK, counterVars
  <1>3. CASE StoreFirstAnswer(p)
    BY <1>3 DEF StoreFirstAnswer, PagesInv, ArmsTypeOK, counterVars, armRowVars
  <1>4. CASE ReloadPage(p)
    <2>1. CASE armSession[p] \in resumable
      BY <1>1, <1>4, <2>1 DEF ReloadPage, PagesInv, ArmsTypeOK, counterVars, armRowVars
    <2>2. CASE armSession[p] \notin resumable
      BY <1>4, <2>2 DEF ReloadPage, PagesInv, ArmsTypeOK, counterVars, armRowVars
    <2>3. QED
      BY <2>1, <2>2
  <1>5. QED
    BY <1>2, <1>3, <1>4

LEMMA StepPages ==
    ASSUME PagesInv, EvenInv, [ArmsNext]_armVars PROVE PagesInv'
  <1>1. ASSUME NEW s \in SessionNo, SyncOffline(s) PROVE PagesInv'
    BY <1>1 DEF SyncOffline, PagesInv, ArmsTypeOK, counterVars, armPageVars
  <1>2. CASE UNCHANGED armVars
    BY <1>2 DEF armVars, counterVars, armPageVars, armRowVars, PagesInv, ArmsTypeOK
  <1>3. QED
    BY <1>1, <1>2, CreatePages, CommitPages, DevicePages DEF ArmsNext

(* Numbers, arms and sessions stay in their ranges, for every strategy: an  *)
(* arm that a create claims is one of the design's.                         *)
THEOREM ArmsKeepTheirTypes == ArmsSpec => []ArmsTypeOK
  <1>1. PagesInv /\ EvenInv /\ [ArmsNext]_armVars => PagesInv'
    BY StepPages
  <1>2. PagesInv => ArmsTypeOK
    BY DEF PagesInv
  <1>3. QED
    BY InitPages, EvenInvariant, <1>1, <1>2, PTL DEF ArmsSpec
-----------------------------------------------------------------------------
(* A step of the composed server is a step of one component, or leaves it   *)
(* alone: whatever is proved of a component holds of it in the server.      *)
THEOREM ServerRunsItsParts ==
    ServerSpec => Spec /\ ArmsSpec /\ ErasureSpec /\ YjsSpec /\ SeriesSpec
  <1>1. ServerInit => Init /\ ArmsInit /\ ErasureInit /\ YjsInit /\ SeriesInit
    BY DEF ServerInit
  <1>2. [ServerNext]_serverVars => /\ [Next]_vars /\ [ArmsNext]_armVars
                                   /\ [ErasureNext]_erasureVars /\ [YjsNext]_yjsVars
                                   /\ [SeriesNext]_seriesVars
    <2>1. CASE UNCHANGED serverVars
      BY <2>1 DEF serverVars
    <2>2. CASE ServerNext
      BY <2>2 DEF ServerNext
    <2>3. QED
      BY <2>1, <2>2
  <1>3. QED
    BY <1>1, <1>2, PTL
       DEF ServerSpec, Spec, ArmsSpec, ErasureSpec, YjsSpec, SeriesSpec

(* Every variable of the server's components keeps to its type.             *)
THEOREM ServerKeepsItsTypes == ServerSpec => []ServerTypeOK
  BY ServerRunsItsParts, QuotaTypeCorrect, ArmsKeepTheirTypes, LedgerKeepsItsTypes,
     RoomKeepsItsTypes, SeriesKeepsItsTypes, PTL DEF ServerTypeOK
=============================================================================
