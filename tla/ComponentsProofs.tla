--------------------------- MODULE ComponentsProofs ---------------------------
(***************************************************************************)
(* The components together: a behaviour of MCComponents is, for each        *)
(* component, a behaviour of that component, so that whatever is proved     *)
(* about a component holds where the components are checked together; and   *)
(* their state stays within its types.                                      *)
(***************************************************************************)
EXTENDS MCComponents, RuntimeProofs, PanelProofs, ArchiveProofs

(* Whichever component moves, the others stay where they are: each component sees *)
(* its own steps and nothing else.                                                *)
THEOREM ComponentsAreThemselves ==
  Spec => /\ ChainSpec /\ GateSpec /\ MeshSpec /\ SupSpec
          /\ RotSpec /\ ArchiveSpec /\ GhostSpec
  <1>1. Init => /\ ChainInit /\ GateInit /\ MeshInit /\ SupInit
                /\ RotInit /\ ArchiveInit /\ GhostInit
    BY DEF Init
  <1>2. [Next]_vars => [ChainNext]_chainVars
    BY DEF Next, vars
  <1>3. [Next]_vars => [GateNext]_gateVars
    BY DEF Next, vars
  <1>4. [Next]_vars => [MeshNext]_meshVars
    BY DEF Next, vars
  <1>5. [Next]_vars => [SupNext]_supVars
    BY DEF Next, vars
  <1>6. [Next]_vars => [RotNext]_rotVars
    BY DEF Next, vars
  <1>7. [Next]_vars => [ArchiveNext]_archiveVars
    BY DEF Next, vars
  <1>8. [Next]_vars => [GhostNext]_ghostVars
    BY DEF Next, vars
  <1>. QED
    BY <1>1, <1>2, <1>3, <1>4, <1>5, <1>6, <1>7, <1>8, PTL
    DEF Spec, ChainSpec, GateSpec, MeshSpec, SupSpec, RotSpec, ArchiveSpec, GhostSpec

(* A chain's records, the clicks of a panel, the mesh, the supervisor, the credentials *)
(* of a rotation, the archive and the ghost panel keep their types, whichever is in    *)
(* focus.                                                                              *)
THEOREM ComponentsTypeCorrect == Spec => []ComponentsTypeOK
  <1>1. Init => focus \in Components
    BY DEF Init
  <1>2. focus \in Components /\ [Next]_vars => (focus \in Components)'
    BY DEF Next, vars
  <1>3. /\ focus \in Components
        /\ ChainTypeOK /\ GateTypeOK /\ MeshTypeOK /\ SupTypeOK
        /\ RotTypeOK /\ ArchiveTypeOK /\ GhostTypeOK
        => ComponentsTypeOK
    BY DEF Components, ComponentsTypeOK
  <1>. QED
    BY <1>1, <1>2, <1>3, ComponentsAreThemselves, ChainTypeCorrect, GateTypeCorrect, MeshTypeCorrect,
       SupTypeCorrect, RotTypeCorrect, ArchiveTypeCorrect, GhostTypeCorrect, PTL
    DEF Spec

(* Every other safety property of the run, each proved of its component: answers stay *)
(* proven and nothing is repeated or out of order in a chain; turns of a panel are     *)
(* handed on in order, and a closed panel stays quiet; the mesh and the rotation leave *)
(* alone what failed; the connection has one owner and is never rebuilt; the archive   *)
(* keeps its settings and its rows and forgets what was removed; the permissions of    *)
(* the ghost panel survive and its replies go where the owner selected.                *)
ComponentsPromise ==
    /\ [](AnswersStayProven /\ TurnsAreHandedOn /\ NewestViewIsNeverStranded)
    /\ [](AmbiguousLimitsBurnTwoCandidates /\ FailedPairsStayOut)
    /\ [](RecoveryNeverRebuilds /\ OneOwnerOfTheConnection)
    /\ [](ArchivedRowsStay /\ RemovedRowsStayRemoved /\ SettingsOutliveOutages)
    /\ []ConfirmedPermissionsSurvive
    /\ SucceededActionsNeverRepeat /\ EffectsFollowTheChain
    /\ NewcomersNeverOvertake /\ ClosedPanelsStayQuiet
    /\ DownProvidersStayOut /\ RepliesFollowTheSelection
THEOREM ComponentsKeepTheirPromises == Spec => ComponentsPromise
  <1>1. ChainSpec => /\ []AnswersStayProven
                     /\ SucceededActionsNeverRepeat /\ EffectsFollowTheChain
    BY AnswersAreKept, NothingIsRepeated, EffectsKeepTheOrder, PTL
  <1>2. GateSpec => /\ []TurnsAreHandedOn /\ []NewestViewIsNeverStranded
                    /\ NewcomersNeverOvertake /\ ClosedPanelsStayQuiet
    BY TurnsStayHandedOn, NoViewIsStranded, NobodyOvertakes, ClosedStaysQuiet, PTL
  <1>3. MeshSpec => []AmbiguousLimitsBurnTwoCandidates /\ DownProvidersStayOut
    BY LimitsBurnTwo, DownStaysOut, PTL
  <1>4. SupSpec => []RecoveryNeverRebuilds /\ []OneOwnerOfTheConnection
    BY NoClientIsRebuilt, ConnectionHasOneOwner, PTL
  <1>5. ArchiveSpec => []ArchivedRowsStay /\ []RemovedRowsStayRemoved /\ []SettingsOutliveOutages
    BY ConfirmedRowsStay, RemovedRowsStayGone, SettingsStayTheOwners, PTL
  <1>6. GhostSpec => []ConfirmedPermissionsSurvive /\ RepliesFollowTheSelection
    BY PermissionsSurvive, RepliesStaySelected, PTL
  <1>. QED
    BY <1>1, <1>2, <1>3, <1>4, <1>5, <1>6, ComponentsAreThemselves, FailedStayOut, PTL
    DEF ComponentsPromise
===============================================================================
