---------------------------- MODULE ServicesProofs ----------------------------
(***************************************************************************)
(* The services together: a behaviour of MCServices is, for each service, a *)
(* behaviour of that service, so that whatever is proved about a service    *)
(* holds where the services are checked together; and their state stays     *)
(* within its types.                                                        *)
(***************************************************************************)
EXTENDS MCServices, RepositoryProofs, PrivateMessageProofs

(* Whichever service moves, the others stay where they are: each service sees its *)
(* own steps and nothing else.                                                    *)
THEOREM ServicesAreThemselves ==
  Spec => TodoSpec /\ ToolSpec /\ AllowanceSpec /\ PolicySpec /\ DegradedSpec
  <1>1. Init => TodoInit /\ ToolInit /\ AllowanceInit /\ PolicyInit /\ DegradedInit
    BY DEF Init
  <1>2. [Next]_vars => [TodoNext]_todoVars
    BY DEF Next, vars
  <1>3. [Next]_vars => [ToolNext]_toolVars
    BY DEF Next, vars
  <1>4. [Next]_vars => [AllowanceNext]_allowanceVars
    BY DEF Next, vars
  <1>5. [Next]_vars => [PolicyNext]_policyVars
    BY DEF Next, vars
  <1>6. [Next]_vars => [DegradedNext]_degradedVars
    BY DEF Next, vars
  <1>. QED
    BY <1>1, <1>2, <1>3, <1>4, <1>5, <1>6, PTL
    DEF Spec, TodoSpec, ToolSpec, AllowanceSpec, PolicySpec, DegradedSpec

(* The steps of a todo, the requests of a chat, the counters and the settings of the *)
(* replies and the rows of both task stores keep their types, whoever is in focus.   *)
THEOREM ServicesTypeCorrect == Spec => []ServicesTypeOK
  <1>1. Init => focus \in Services
    BY DEF Init
  <1>2. focus \in Services /\ [Next]_vars => (focus \in Services)'
    BY DEF Next, vars
  <1>3. /\ focus \in Services
        /\ TodoTypeOK /\ ToolTypeOK /\ AllowanceTypeOK /\ PolicyTypeOK /\ DegradedTypeOK
        => ServicesTypeOK
    BY DEF Services, ServicesTypeOK
  <1>. QED
    BY <1>1, <1>2, <1>3, ServicesAreThemselves, TodoTypeCorrect, ToolTypeCorrect,
       AllowanceTypeCorrect, PolicyTypeCorrect, DegradedTypeCorrect, PTL
    DEF Spec

(* Every other safety property of the run, each proved of its service: the steps of a *)
(* todo keep their places, and only earlier operations revive them or are missed by a  *)
(* completion; tools run once, and approvals are spent once; the allowance is kept and *)
(* the saved settings survive; a task's effects follow its rows, and what is consumed  *)
(* was served.                                                                         *)
ServicesPromise ==
    /\ [](StepsKeepTheirPlaces /\ CallsRunOnceAndAreReportedSo /\ ApprovalsAreSpentOnce)
    /\ [](AllowanceIsKept /\ SavedSettingsSurvive)
    /\ [](EffectsFollowRows /\ ConsumedTasksWereServed)
    /\ OnlyEarlierOperationsReviveSteps /\ CompletionMissesOnlyLaterWrites
THEOREM ServicesKeepTheirPromises == Spec => ServicesPromise
  <1>1. TodoSpec => /\ []StepsKeepTheirPlaces
                    /\ OnlyEarlierOperationsReviveSteps /\ CompletionMissesOnlyLaterWrites
    BY StepsStayInPlace, OnlyEarlierRevive, CompletionsMissLaterWrites, PTL
  <1>2. ToolSpec => []CallsRunOnceAndAreReportedSo /\ []ApprovalsAreSpentOnce
    BY CallsRunOnce, ApprovalsSpentOnce, PTL
  <1>3. DegradedSpec => []EffectsFollowRows /\ []ConsumedTasksWereServed
    BY TasksRunOncePerStore, BoundariesWereServed, PTL
  <1>. QED
    BY <1>1, <1>2, <1>3, ServicesAreThemselves, AllowanceKept, SettingsSurvive, PTL
    DEF ServicesPromise
===============================================================================
