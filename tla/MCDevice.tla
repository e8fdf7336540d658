------------------------------ MODULE MCDevice ------------------------------
(* The device's components that share no state, each on a small instance:   *)
(* the run's flow, the storing of answers, the sync of variables, binary    *)
(* answers, the keys of the encrypted rows and the offline copies of the    *)
(* questionnaire; and the saves of the author's device.  A behaviour is a   *)
(* behaviour of one of them, its subject; Subjects says which.              *)
EXTENDS QuestionnaireFlow, AnswerStorage, VariableSync, BinaryUpload, FilloutKeys,
        ContentCache, DesignerSave, TLC

CONSTANTS q1, q2, q3, q4, q5, d1, m1, hidden, v1, v2, f1, f2, t1, t2, n1, n2, Subjects

VARIABLE subject

(* Four pages: an auto-advanced notice between two questions, a hidden item *)
(* and a media item, a hidden page, a last page with limits.                *)
MCPages == << <<q1, d1, q5>>, <<q2, hidden, m1>>, <<q4>>, <<q3>> >>
MCDeadline == q1 :> "skip" @@ q2 :> "warn" @@ q3 :> "terminate"
              @@ q4 :> "none" @@ q5 :> "none" @@ hidden :> "none"
MCPageLimit == <<"none", "auto-advance", "none", "terminate">>
MCRules == {[type |-> "loop", source |-> 2, target |-> 1, iterations |-> 1],
            [type |-> "branch", source |-> 1, target |-> 3, iterations |-> 0],
            [type |-> "branch", source |-> 4, target |-> 2, iterations |-> 0],
            [type |-> "terminate", source |-> 2, target |-> 1, iterations |-> 0]}
MCSaves == v1 :> 2 @@ v2 :> 1

deviceVars == <<subject, flowVars, storageVars, variableVars, binaryVars, keysVars,
                contentVars, designerVars>>

(* What keeps still starts in one state.                                    *)
DeviceInit ==
    /\ subject \in Subjects
    /\ FlowInit /\ StorageInit /\ VariableInit /\ BinaryInit /\ KeysInit
    /\ ContentInit /\ DesignerInit
    /\ subject # "designer" => definitions = <<>> /\ outbox = {}
    /\ subject # "binaries" => sessionSynced

DeviceNext ==
    /\ UNCHANGED subject
    /\ \/ /\ subject = "flow" /\ FlowNext
          /\ UNCHANGED <<storageVars, variableVars, binaryVars, keysVars, contentVars,
                         designerVars>>
       \/ /\ subject = "storage" /\ StorageNext
          /\ UNCHANGED <<flowVars, variableVars, binaryVars, keysVars, contentVars,
                         designerVars>>
       \/ /\ subject = "variables" /\ VariableNext
          /\ UNCHANGED <<flowVars, storageVars, binaryVars, keysVars, contentVars,
                         designerVars>>
       \/ /\ subject = "binaries" /\ BinaryNext
          /\ UNCHANGED <<flowVars, storageVars, variableVars, keysVars, contentVars,
                         designerVars>>
       \/ /\ subject = "keys" /\ KeysNext
          /\ UNCHANGED <<flowVars, storageVars, variableVars, binaryVars, contentVars,
                         designerVars>>
       \/ /\ subject = "content" /\ ContentNext
          /\ UNCHANGED <<flowVars, storageVars, variableVars, binaryVars, keysVars,
                         designerVars>>
       \/ /\ subject = "designer" /\ DesignerNext
          /\ UNCHANGED <<flowVars, storageVars, variableVars, binaryVars, keysVars,
                         contentVars>>

(* A chain of the runtime's own calls goes on, an armed survey timer fires, *)
(* the engine drains what is queued and requests end, and a variable that   *)
(* was stored is queued.                                                    *)
DeviceFairness ==
    /\ WF_flowVars(subject = "flow" /\ (NavigateToPage \/ ShowCurrentItem \/ FollowFlow))
    /\ WF_flowVars(subject = "flow" /\ SurveyTimeout)
    /\ WF_variableVars(subject = "variables" /\ (DrainVariables \/ OverdueLost))
    /\ WF_variableVars(subject = "variables" /\
                       \E v \in Variable, k \in Version : EnqueueVariable(v, k))
    /\ WF_binaryVars(subject = "binaries" /\ DrainFiles)

DeviceSpec == DeviceInit /\ [][DeviceNext]_deviceVars /\ DeviceFairness

\* Every variable of the device's components keeps to its type.
DeviceTypeOK ==
    /\ FlowTypeOK /\ StorageTypeOK /\ VariableTypeOK /\ BinaryTypeOK /\ KeysTypeOK
    /\ ContentTypeOK /\ DesignerTypeOK
=============================================================================
