------------------------------ MODULE MCServer ------------------------------
(* The server's components that share no state, each on a small instance:  *)
(* quota claims, arm assignment, erasure, the rooms of the designer and the *)
(* waves of a series.  A behaviour is a behaviour of one of them, its       *)
(* subject; Subjects says which.                                            *)
EXTENDS QuotaCompletion, ArmAssignment, ErasureLedger, YjsRoom, SeriesWaves

CONSTANTS s1, s2, s3, capped, open, p1, p2, o1, o2, r1, r2, c1, c2, n1, n2,
          i1, i2, Slots, Subjects

VARIABLE subject

MCTarget == [c \in {capped, open} |-> IF c = capped THEN Slots ELSE 0]

serverVars == <<subject, vars, armVars, erasureVars, yjsVars,
                seriesVars>>

ServerInit ==
    /\ subject \in Subjects
    /\ Init /\ ArmsInit /\ ErasureInit /\ YjsInit /\ SeriesInit

ServerNext ==
    /\ UNCHANGED subject
    /\ \/ /\ subject = "quota" /\ Next
          /\ UNCHANGED <<armVars, erasureVars, yjsVars, seriesVars>>
       \/ /\ subject = "arms" /\ ArmsNext
          /\ UNCHANGED <<vars, erasureVars, yjsVars, seriesVars>>
       \/ /\ subject = "erasure" /\ ErasureNext
          /\ UNCHANGED <<vars, armVars, yjsVars, seriesVars>>
       \/ /\ subject = "room" /\ YjsNext
          /\ UNCHANGED <<vars, armVars, erasureVars, seriesVars>>
       \/ /\ subject = "series" /\ SeriesNext
          /\ UNCHANGED <<vars, armVars, erasureVars, yjsVars>>

(* Requests that were sent are worked on, and the sweeper runs for the      *)
(* process lifetime.                                                        *)
ServerFairness ==
    /\ \A s \in Session : WF_vars(subject = "quota" /\ Sync(s))
    /\ WF_erasureVars(subject = "erasure" /\ SweepStep)

ServerSpec == ServerInit /\ [][ServerNext]_serverVars /\ ServerFairness

\* Every variable of the server's components keeps to its type.
ServerTypeOK == TypeOK /\ ArmsTypeOK /\ ErasureTypeOK /\ YjsTypeOK /\ SeriesTypeOK
=============================================================================
